---- MODULE Spec2Model ----
(***************************************************************************)
(* A model of boolean_parser/mixins/sqla.py: the translation of a parsed   *)
(* boolean expression (conditions under NOT/AND/OR) into SQLAlchemy        *)
(* filter conditions.                                                      *)
(*                                                                         *)
(* Python strings are sequences of one-character strings, so that          *)
(* containment (`in`), formatting ('{0}_{1}'.format) and the numeric       *)
(* parsers (int(), float()) are computed and not assumed.                  *)
(***************************************************************************)
EXTENDS Integers, Sequences, FiniteSets, TLC

VARIABLES
    conds,       \* the conditions of the expression, in the order parsed
    params,      \* the dict params that _bind_parameter_names reads and updates
    stack,       \* the nodes parsed so far; one node when the expression is complete
    modelclass,  \* the schema argument the caller passes to filter
    runs,        \* per call of the root's filter: its outcome and the log of its calls
    ret          \* the last direct call of _check_models or _get_field

vars == <<conds, params, stack, modelclass, runs, ret>>

(***************************************************************************)
(* Bounds of the model.                                                    *)
(***************************************************************************)
MaxConds == 3
MaxOps == 2
MaxModels == 2
MaxCalls == 2

(***************************************************************************)
(* Python values.                                                          *)
(***************************************************************************)
\* Python's None.
None == [kind |-> "None"]

\* A str is a sequence of characters; <<>> is the empty string.  A name
\* that is None or the empty string is <<>>: the code only tests such a name
\* for truth.

\* `sub in s` for two strs: sub occurs in s as a contiguous run.
StrContains(sub, s) ==
    \E i \in 0..(Len(s) - Len(sub)) : SubSeq(s, i + 1, i + Len(sub)) = sub

Digits == <<"0", "1", "2", "3", "4", "5", "6", "7", "8", "9">>

IsDigit(c) == \E d \in 1..10 : Digits[d] = c

DigitVal(c) == (CHOOSE d \in 1..10 : Digits[d] = c) - 1

\* str(n) for a natural number n.
RECURSIVE IntToStr(_)
IntToStr(n) ==
    IF n < 10 THEN <<Digits[n + 1]>>
    ELSE IntToStr(n \div 10) \o <<Digits[(n % 10) + 1]>>

\* The value of a run of digits.
RECURSIVE DigitsVal(_)
DigitsVal(s) ==
    IF s = <<>> THEN 0
    ELSE 10 * DigitsVal(SubSeq(s, 1, Len(s) - 1)) + DigitVal(s[Len(s)])

AllDigits(s) == \A i \in 1..Len(s) : IsDigit(s[i])

HasSign(s) == Len(s) > 0 /\ s[1] \in {"-", "+"}

Unsigned(s) == IF HasSign(s) THEN Tail(s) ELSE s

Signed(s, n) == IF HasSign(s) /\ s[1] = "-" THEN 0 - n ELSE n

\* 10^k
RECURSIVE Pow10(_)
Pow10(k) == IF k = 0 THEN 1 ELSE 10 * Pow10(k - 1)

\* The outcome of a conversion: the number, or ok = FALSE for a ValueError.
Converted(out) == [ok |-> TRUE, out |-> out]

ValueError == [ok |-> FALSE, out |-> None]

IntNumber(num) == [type |-> "int", num |-> num, places |-> 0]

\* A decimal number num / 10^places without trailing zeros in the fraction.
RECURSIVE FloatNumber(_, _)
FloatNumber(num, places) ==
    IF places > 0 /\ num % 10 = 0 THEN FloatNumber(num \div 10, places - 1)
    ELSE [type |-> "float", num |-> num, places |-> places]

\* int() of the digits after the sign
IntOfDigits(value, body) ==
    IF Len(body) > 0 /\ AllDigits(body)
    THEN Converted(IntNumber(Signed(value, DigitsVal(body))))
    ELSE ValueError

\* int(value) of a str: an optional sign and at least one digit; anything
\* else is a ValueError.
IntOf(value) == IntOfDigits(value, Unsigned(value))

\* The places of the points of a str.
Points(body) == {i \in 1..Len(body) : body[i] = "."}

\* float() of the digits before and after the point
FloatOfParts(value, whole, frac) ==
    IF AllDigits(whole) /\ AllDigits(frac) /\ Len(whole) + Len(frac) > 0
    THEN Converted(FloatNumber(Signed(value, DigitsVal(whole) * Pow10(Len(frac)) + DigitsVal(frac)),
                               Len(frac)))
    ELSE ValueError

\* float() of the characters after the sign, the points being at `points`
FloatOfDigits(value, body, points) ==
    IF points = {} THEN FloatOfParts(value, body, <<>>)
    ELSE IF Cardinality(points) > 1 THEN ValueError
    ELSE FloatOfParts(value,
                      SubSeq(body, 1, (CHOOSE i \in points : TRUE) - 1),
                      SubSeq(body, (CHOOSE i \in points : TRUE) + 1, Len(body)))

\* float(value) of a str: an optional sign, then digits with at most one
\* point and at least one digit; anything else is a ValueError.
FloatOf(value) == FloatOfDigits(value, Unsigned(value), Points(Unsigned(value)))

(***************************************************************************)
(* The objects a caller can pass as a schema: SQLAlchemy model classes     *)
(* (instances of DeclarativeMeta), other classes, and other objects.       *)
(***************************************************************************)
FieldNames == {<<"x">>, <<"y">>}

\* The kinds of attribute a model class can have under a name: none, a
\* column of some python type, or an attribute that is no column (a
\* relationship: it has no `type`).
ColumnTypes == {"int", "float", "decimal", "str"}
AttrKinds == ColumnTypes \cup {"absent", "relationship"}

ModelClass(tablename, x, y) ==
    [kind |-> "model", tablename |-> tablename,
     attrs |-> (<<"x">> :> x) @@ (<<"y">> :> y)]

\* A class that is no model class, with or without a __tablename__.
PlainClass(tablename) ==
    [kind |-> "class", tablename |-> tablename,
     attrs |-> (<<"x">> :> "absent") @@ (<<"y">> :> "absent")]

\* An object that is no class.
PlainObject ==
    [kind |-> "object", tablename |-> <<>>,
     attrs |-> (<<"x">> :> "absent") @@ (<<"y">> :> "absent")]

IsDeclarativeMeta(m) == m.kind = "model"

IsClass(m) == m.kind \in {"model", "class"}

HasTablename(m) == m.tablename # <<>>

ModelA == ModelClass(<<"a">>, "int", "str")

ModelAB == ModelClass(<<"a", "b">>, "float", "absent")

ModelB == ModelClass(<<"b">>, "decimal", "relationship")

ModelC == ModelClass(<<"c">>, "absent", "str")

Models == {ModelA, ModelAB, ModelB, ModelC}

Objects == Models \cup {PlainClass(<<"p">>), PlainClass(<<>>), PlainObject}

\* The sequences over S of length at most n.
SeqsUpTo(S, n) == UNION {[1..k -> S] : k \in 0..n}

(***************************************************************************)
(* SQL expressions, as the terms the SQLAlchemy constructors build.        *)
(***************************************************************************)
bindparam(key, value) == [kind |-> "bindparam", key |-> key, value |-> value]

lower(e) == [kind |-> "lower", arg |-> e]

not_(clause) == [kind |-> "not", clauses |-> <<clause>>]

and_(clauses) == [kind |-> "and", clauses |-> clauses]

or_(clauses) == [kind |-> "or", clauses |-> clauses]

\* A str value as a literal to bind.
StrValue(value) == [type |-> "str", text |-> value]

(***************************************************************************)
(* The schema argument of filter: one object, a list or a tuple of         *)
(* objects, or a module, whose members inspect.getmembers lists by name.   *)
(***************************************************************************)
Single(m) == [shape |-> "single", items |-> <<m>>]

Container(shape, items) == [shape |-> shape, items |-> items]

IsNone(classes) == classes = Single(None)

ModuleMember(m) == IsClass(m) /\ HasTablename(m)

\* The outcome of a call: the exception it raises (exc, msg), or none and
\* the value it returns.
Return(value) == [exc |-> "", msg |-> "", value |-> value]

Raise(exc, msg) == [exc |-> exc, msg |-> msg, value |-> None]

Raised(r) == r.exc # ""

UnresolvedField == "does not have field"

InvalidNumericValue == "expects a value"

\* _check_models taking every class of a module, with a table name or not
CheckModelsEveryClass(classes) ==
    LET models == IF classes.shape = "module"
                  THEN SelectSeq(classes.items, IsClass)
                  ELSE classes.items
        allmeta == \A i \in 1..Len(models) : IsDeclarativeMeta(models[i])
    IN  IF allmeta THEN Return(models)
        ELSE Raise("AssertionError", "All input classes must be of type SQLAlchemy ModelClasses")

\* SQLAMixin._check_models
CheckModels(classes) ==
    LET models == IF classes.shape = "module"
                  THEN SelectSeq(classes.items, ModuleMember)
                  ELSE classes.items
        allmeta == \A i \in 1..Len(models) : IsDeclarativeMeta(models[i])
    IN  IF allmeta THEN Return(models)
        ELSE Raise("AssertionError", "All input classes must be of type SQLAlchemy ModelClasses")

\* getattr(modelclass, field_name, None)
GetAttr(m, field_name) ==
    IF field_name \in DOMAIN m.attrs /\ m.attrs[field_name] # "absent"
    THEN [kind |-> "attribute", tablename |-> m.tablename,
          name |-> field_name, type |-> m.attrs[field_name]]
    ELSE None

\* SQLAMixin._get_field
GetField(m, field_name, base_name) ==
    IF base_name # <<>>
    THEN IF StrContains(base_name, m.tablename)
         THEN GetAttr(m, field_name)
         ELSE None
    ELSE GetAttr(m, field_name)

\* `field and hasattr(field, 'type') and hasattr(field, 'ilike')`
IsColumn(field) == field # None /\ field.type \in ColumnTypes

(***************************************************************************)
(* A condition (the leaf of an expression): boolean_parser.conditions      *)
(* gives it name, base (the part before the dot, <<>> when there is none), *)
(* fullname, value, and value2 only when the condition is a range.         *)
(***************************************************************************)
\* The dotted name of a condition.
FullName(base, name) == IF base = <<>> THEN name ELSE base \o <<".">> \o name

\* '{0}_{1}'.format(fullname, n)
Format(fullname, n) == fullname \o <<"_">> \o IntToStr(n)

\* params.update({key: value}) on the dict params
Update(dict, key, value) == (key :> value) @@ dict

\* SQLAMixin._bind_parameter_names: the condition with its bindname, and
\* the dict params after it.
BindParameterNames(self, dict) ==
    IF self.fullname \notin DOMAIN dict
    THEN [self |-> [self EXCEPT !.bindname = self.fullname],
          params |-> Update(dict, self.fullname, self.value)]
    ELSE LET count == Cardinality({k \in DOMAIN dict : k = self.fullname})
         IN  [self |-> [self EXCEPT !.bindname = Format(self.fullname, count)],
              params |-> Update(dict, self.fullname, self.value)]

\* SQLAMixin._cast_value, the conversion done: the ValueError becomes the
\* parser's exception
CastValueOf(converted) ==
    IF converted.ok THEN Return(converted.out)
    ELSE Raise("BooleanParserException", InvalidNumericValue)

\* SQLAMixin._cast_value; datatype is "float" or "int"
CastValue(value, datatype) ==
    CastValueOf(IF datatype = "int" THEN IntOf(value) ELSE FloatOf(value))

\* SQLAMixin._format_value of a numeric field, the value cast
FormatNumber(cast, field) ==
    IF Raised(cast) THEN cast ELSE Return(<<cast.value, field>>)

\* _format_value casting float and int columns only: a decimal column is
\* taken as a str column
FormatValueNoDecimal(value, fieldtype, field) ==
    IF fieldtype = "float"
    THEN FormatNumber(CastValue(value, "float"), field)
    ELSE IF fieldtype = "int"
    THEN FormatNumber(CastValue(value, "int"), field)
    ELSE Return(<<StrValue(value), lower(field)>>)

\* SQLAMixin._format_value: the pair <<out_value, lower_field>>
FormatValue(value, fieldtype, field) ==
    IF fieldtype = "float" \/ fieldtype = "decimal"
    THEN FormatNumber(CastValue(value, "float"), field)
    ELSE IF fieldtype = "int"
    THEN FormatNumber(CastValue(value, "int"), field)
    ELSE Return(<<StrValue(value), lower(field)>>)

\* The outcome of a method of a condition: what it raises or returns, the
\* condition after the call, and the bindparam calls it made, in order.
Outcome(r, self, binds) ==
    [exc |-> r.exc, msg |-> r.msg, value |-> r.value, self |-> self, binds |-> binds,
     found |-> [model |-> None, field |-> None]]

\* The outcome r of _filter_one, with the model and the field that
\* SQLAMixin.filter passed to it
FilterOneOf(r, found) == [r EXCEPT !.found = found]

\* `func.lower(boundvalue) if fieldtype not in ftypes else boundvalue`
LowerValue(fieldtype, boundvalue) ==
    IF fieldtype \notin {"float", "int", "decimal"} THEN lower(boundvalue) ELSE boundvalue

\* SQLAMixin._bind_and_lower_value, the values formatted: f1 is value's
\* _format_value and f2 is value2's, which is read only when there is a value2
BindFormatted(self, fieldtype, f1, f2) ==
    IF Raised(f1) THEN Outcome(f1, self, <<>>)
    ELSE IF ~self.hasvalue2
    THEN Outcome(Return(<<f1.value[2],
                          LowerValue(fieldtype, bindparam(self.bindname, f1.value[1])),
                          None>>),
                 self,
                 <<bindparam(self.bindname, f1.value[1])>>)
    ELSE IF Raised(f2) THEN Outcome(f2, self, <<>>)
    ELSE Outcome(Return(<<f2.value[2],
                          LowerValue(fieldtype, bindparam(self.bindname, f1.value[1])),
                          LowerValue(fieldtype, bindparam(Format(self.fullname, 2), f2.value[1]))>>),
                 [self EXCEPT !.bindname = Format(self.fullname, 2)],
                 <<bindparam(self.bindname, f1.value[1]),
                   bindparam(Format(self.fullname, 2), f2.value[1])>>)

\* SQLAMixin._bind_and_lower_value; an attribute that is no column has no
\* `type`
BindAndLowerValue(self, field) ==
    IF field.type \notin ColumnTypes
    THEN Outcome(Raise("AttributeError", "type"), self, <<>>)
    ELSE BindFormatted(self, field.type,
                       FormatValue(self.value, field.type, field),
                       FormatValue(self.value2, field.type, field))

\* SQLAMixin._filter_one, the values bound: it returns the condition it
\* was given
FilterOneBound(bound, condition) ==
    IF Raised(bound) THEN bound
    ELSE Outcome(Return(condition), bound.self, bound.binds)

\* SQLAMixin._filter_one
FilterOne(self, model, field, condition) ==
    IF field = None THEN Outcome(Return(condition), self, <<>>)
    ELSE FilterOneBound(BindAndLowerValue(self, field), condition)

\* One turn of the loop of SQLAMixin.filter: model and field are set, and
\* the loop ends at a column or after the last model.
RECURSIVE FindModel(_, _, _)
FindModelAt(self, models, i, field) ==
    IF IsColumn(field) \/ i = Len(models)
    THEN [model |-> models[i], field |-> field]
    ELSE FindModel(self, models, i + 1)

\* The loop of SQLAMixin.filter over models, from the i-th on: model and
\* field as the loop leaves them.
FindModel(self, models, i) ==
    FindModelAt(self, models, i, GetField(models[i], self.name, self.base))

\* SQLAMixin.filter after the loop
FilterFound(self, found) ==
    IF found.field = None
    THEN Outcome(Raise("BooleanParserException", UnresolvedField), self, <<>>)
    ELSE FilterOneOf(FilterOne(self, found.model, found.field, None), found)

\* SQLAMixin.filter after _check_models: with no model the loop sets no
\* field, and reading it is an UnboundLocalError
FilterModels(self, checked) ==
    IF Raised(checked) THEN Outcome(checked, self, <<>>)
    ELSE IF Len(checked.value) = 0
    THEN Outcome(Raise("UnboundLocalError", "field"), self, <<>>)
    ELSE FilterFound(self, FindModel(self, checked.value, 1))

\* SQLAMixin.filter
Filter(self, classes) ==
    IF IsNone(classes)
    THEN Outcome(Raise("AssertionError", "No input found"), self, <<>>)
    ELSE FilterModels(self, CheckModels(classes))

(***************************************************************************)
(* The expression tree: conditions under BoolNot, BoolAnd and BoolOr.  A   *)
(* node names its condition by its index in conds, or lists its children.  *)
(***************************************************************************)
CondNode(id) == [kind |-> "cond", id |-> id, conditions |-> <<>>]

BoolNot(condition) == [kind |-> "not", id |-> 0, conditions |-> <<condition>>]

BoolAnd(conditions) == [kind |-> "and", id |-> 0, conditions |-> conditions]

BoolOr(conditions) == [kind |-> "or", id |-> 0, conditions |-> conditions]

\* The state a translation reads and writes: the conditions, and the log of
\* the calls of SQLAMixin.filter made so far.
Heap(cs, log) == [conds |-> cs, calls |-> log]

\* The outcome of a node's filter: what it raises or returns, and the heap
\* after it.
NodeOutcome(r, heap) ==
    [exc |-> r.exc, msg |-> r.msg, value |-> r.value,
     conds |-> heap.conds, calls |-> heap.calls]

RECURSIVE NodeFilter(_, _, _)
RECURSIVE FilterEach(_, _, _, _)

\* The heap after the id-th condition's filter, whose outcome is r
Logged(id, classes, heap, r) ==
    NodeOutcome(r, Heap([heap.conds EXCEPT ![id] = r.self],
                        Append(heap.calls,
                               [cond |-> id, classes |-> classes, exc |-> r.exc,
                                msg |-> r.msg, binds |-> r.binds, found |-> r.found])))

\* SQLACondition.filter on the id-th condition
CondFilter(id, classes, heap) ==
    Logged(id, classes, heap, Filter(heap.conds[id], classes))

\* sqlalchemy's constructor on the outcome of its arguments: an exception
\* raised while they were computed passes through
Apply(kind, r) ==
    IF Raised(r) THEN r
    ELSE [r EXCEPT !.value = CASE kind = "not" -> not_(r.value)
                               [] kind = "and" -> and_(r.value)
                               [] kind = "or" -> or_(r.value)]

\* SQLANot.filter
NotFilter(node, classes, heap) ==
    Apply("not", NodeFilter(node.conditions[1], classes, heap))

\* SQLAAnd.filter
AndFilter(node, classes, heap) ==
    Apply("and", FilterEach(node.conditions, classes, heap, <<>>))

\* SQLAOr.filter
OrFilter(node, classes, heap) ==
    Apply("or", FilterEach(node.conditions, classes, heap, <<>>))

\* node.filter(classes): the filter of the node's class
NodeFilter(node, classes, heap) ==
    CASE node.kind = "cond" -> CondFilter(node.id, classes, heap)
      [] node.kind = "not" -> NotFilter(node, classes, heap)
      [] node.kind = "and" -> AndFilter(node, classes, heap)
      [] node.kind = "or" -> OrFilter(node, classes, heap)

\* The list comprehension putting each result before the earlier ones
FilterRestReversed(conditions, classes, done, r) ==
    IF Raised(r) THEN r
    ELSE FilterEach(Tail(conditions), classes, Heap(r.conds, r.calls),
                    <<r.value>> \o done)

\* The list comprehension going on after an exception, which it raises
\* once every condition is done
FilterRestDeferred(conditions, classes, done, r) ==
    IF Raised(r)
    THEN [r EXCEPT !.calls = FilterEach(Tail(conditions), classes,
                                        Heap(r.conds, r.calls), done).calls]
    ELSE FilterEach(Tail(conditions), classes, Heap(r.conds, r.calls),
                    Append(done, r.value))

\* The list comprehension after its first element, whose outcome is r
FilterRest(conditions, classes, done, r) ==
    IF Raised(r) THEN r
    ELSE FilterEach(Tail(conditions), classes, Heap(r.conds, r.calls),
                    Append(done, r.value))

\* [condition.filter(modelclass) for condition in conditions], the results
\* so far being done: the first exception ends it.
FilterEach(conditions, classes, heap, done) ==
    IF conditions = <<>> THEN NodeOutcome(Return(done), heap)
    ELSE FilterRest(conditions, classes, done,
                    NodeFilter(Head(conditions), classes, heap))

(***************************************************************************)
(* The state machine: the parser builds the expression, one node at a      *)
(* time, and the caller then calls the root's filter.                      *)
(***************************************************************************)
EmptyDict == [k \in {} |-> None]

NoCall == [op |-> "none"]

\* The number of BoolNot, BoolAnd and BoolOr nodes of a node.
RECURSIVE Ops(_)
RECURSIVE OpsOf(_)
Ops(node) == IF node.kind = "cond" THEN 0 ELSE 1 + OpsOf(node.conditions)

OpsOf(nodes) == IF nodes = <<>> THEN 0 ELSE Ops(Head(nodes)) + OpsOf(Tail(nodes))

\* The parser makes a condition: its attributes, then its bindname.
NewCondition(name, base, value, hasvalue2, value2) ==
    /\ runs = <<>>
    /\ LET self == [name |-> name, base |-> base, fullname |-> FullName(base, name),
                    value |-> value, hasvalue2 |-> hasvalue2,
                    value2 |-> IF hasvalue2 THEN value2 ELSE <<>>,
                    bindname |-> <<>>]
           bound == BindParameterNames(self, params)
       IN  /\ conds' = Append(conds, bound.self)
           /\ params' = bound.params
           /\ stack' = Append(stack, CondNode(Len(conds) + 1))
    /\ UNCHANGED <<modelclass, runs, ret>>

\* The parser makes a BoolNot of the last node.
NewNot ==
    /\ runs = <<>>
    /\ stack # <<>>
    /\ OpsOf(stack) < MaxOps
    /\ stack' = [stack EXCEPT ![Len(stack)] = BoolNot(stack[Len(stack)])]
    /\ UNCHANGED <<conds, params, modelclass, runs, ret>>

\* The parser makes a BoolAnd of the last k nodes.
NewAnd(k) ==
    /\ runs = <<>>
    /\ k <= Len(stack)
    /\ OpsOf(stack) < MaxOps
    /\ stack' = Append(SubSeq(stack, 1, Len(stack) - k),
                       BoolAnd(SubSeq(stack, Len(stack) - k + 1, Len(stack))))
    /\ UNCHANGED <<conds, params, modelclass, runs, ret>>

\* The parser makes a BoolOr of the last k nodes.
NewOr(k) ==
    /\ runs = <<>>
    /\ k <= Len(stack)
    /\ OpsOf(stack) < MaxOps
    /\ stack' = Append(SubSeq(stack, 1, Len(stack) - k),
                       BoolOr(SubSeq(stack, Len(stack) - k + 1, Len(stack))))
    /\ UNCHANGED <<conds, params, modelclass, runs, ret>>

\* The caller calls the filter of the root of the complete expression.
Translated(r) ==
    /\ conds' = r.conds
    /\ runs' = Append(runs, [exc |-> r.exc, msg |-> r.msg, value |-> r.value,
                             calls |-> r.calls, before |-> conds])

Translate ==
    /\ Len(stack) = 1
    /\ Len(runs) < MaxCalls
    /\ Translated(NodeFilter(stack[1], modelclass, Heap(conds, <<>>)))
    /\ UNCHANGED <<params, stack, modelclass, ret>>

\* A direct call of _check_models.
CallCheckModels(classes) ==
    /\ ret = NoCall
    /\ ret' = [op |-> "_check_models", classes |-> classes, out |-> CheckModels(classes)]
    /\ UNCHANGED <<conds, params, stack, modelclass, runs>>

\* A direct call of _get_field.
CallGetField(m, field_name, base_name) ==
    /\ ret = NoCall
    /\ ret' = [op |-> "_get_field", model |-> m, field_name |-> field_name,
               base_name |-> base_name, out |-> GetField(m, field_name, base_name)]
    /\ UNCHANGED <<conds, params, stack, modelclass, runs>>

(***************************************************************************)
(* The inputs.                                                             *)
(***************************************************************************)
Bases == {<<>>, <<"a">>, <<"b">>}

Values == {<<"7">>, <<"-", "2">>, <<"1", ".", "5">>, <<"a">>}

Values2 == {<<"9">>, <<"b">>}

Shapes == {"list", "tuple", "module"}

\* Every schema argument of up to MaxModels entries.
Classes ==
    {Single(m) : m \in Objects \cup {None}}
        \cup {Container(shape, items) : shape \in Shapes, items \in SeqsUpTo(Objects, MaxModels)}

\* The schema arguments of the expression runs.
TreeClasses ==
    {Container("list", <<ModelAB>>)}

\* The conditions of the expression runs: <<name, base, value, hasvalue2, value2>>.
TreeConds ==
    { <<<<"x">>, <<>>, <<"7">>, FALSE, <<>>>>,
      <<<<"x">>, <<>>, <<"a">>, FALSE, <<>>>>,
      <<<<"x">>, <<>>, <<"7">>, TRUE, <<"9">>>>,
      <<<<"y">>, <<>>, <<"a">>, FALSE, <<>>>> }

\* The model classes of the direct calls of _get_field.
Tables == {<<"a">>, <<"a", "b">>, <<"b">>}

FieldModels == {ModelClass(t, x, y) : t \in Tables, x \in AttrKinds, y \in {"absent", "str"}}

(***************************************************************************)
(* Expressions of up to MaxConds conditions and MaxOps operators.          *)
(***************************************************************************)
Init ==
    /\ conds = <<>>
    /\ params = EmptyDict
    /\ stack = <<>>
    /\ modelclass \in TreeClasses
    /\ runs = <<>>
    /\ ret = NoCall

Next ==
    \/ \E c \in TreeConds :
          Len(conds) < MaxConds /\ NewCondition(c[1], c[2], c[3], c[4], c[5])
    \/ NewNot
    \/ \E k \in 2..MaxConds : NewAnd(k)
    \/ \E k \in 2..MaxConds : NewOr(k)
    \/ Translate

Spec == Init /\ [][Next]_vars

(***************************************************************************)
(* One condition, of any name, base and values, on any schema argument.    *)
(***************************************************************************)
InitCond ==
    /\ conds = <<>>
    /\ params = EmptyDict
    /\ stack = <<>>
    /\ modelclass \in Classes
    /\ runs = <<>>
    /\ ret = NoCall

NextCond ==
    \/ \E name \in FieldNames, base \in Bases, value \in Values :
          \/ conds = <<>> /\ NewCondition(name, base, value, FALSE, <<>>)
          \/ \E value2 \in Values2 :
                conds = <<>> /\ NewCondition(name, base, value, TRUE, value2)
    \/ Translate

SpecCond == InitCond /\ [][NextCond]_vars

(***************************************************************************)
(* The direct calls of the schema resolver and of the field lookup.        *)
(***************************************************************************)
InitResolver ==
    /\ conds = <<>>
    /\ params = EmptyDict
    /\ stack = <<>>
    /\ modelclass = Single(None)
    /\ runs = <<>>
    /\ ret = NoCall

NextResolver ==
    \/ \E classes \in Classes : CallCheckModels(classes)
    \/ \E m \in FieldModels, field_name \in FieldNames, base_name \in Bases :
          CallGetField(m, field_name, base_name)

SpecResolver == InitResolver /\ [][NextResolver]_vars

(***************************************************************************)
(* The properties.                                                         *)
(***************************************************************************)
Numeric == {"int", "float", "decimal"}

\* The schema argument passes the resolver.
Accepted(classes) == ~IsNone(classes) /\ ~Raised(CheckModels(classes))

\* The qualifier of a condition, if it has one, names the model's table.
Qualifies(m, self) == self.base = <<>> \/ self.base = m.tablename

\* The model has an attribute of the condition's name, column or not.
HasAttribute(m, self) == self.name \in DOMAIN m.attrs /\ m.attrs[self.name] # "absent"

\* The model exposes the condition's field: a column of that name.
Exposes(m, self) ==
    /\ self.name \in DOMAIN m.attrs
    /\ m.attrs[self.name] \in ColumnTypes
    /\ Qualifies(m, self)

\* The str converts to the python type of a numeric column.
Convertible(value, type) == IF type = "int" THEN IntOf(value).ok ELSE FloatOf(value).ok

\* The expression is one condition.
OneCondition == Len(conds) = 1 /\ stack = <<CondNode(1)>>

\* The conditions of a node, left to right.
RECURSIVE Leaves(_)
RECURSIVE LeavesOf(_)
Leaves(node) == IF node.kind = "cond" THEN <<node.id>> ELSE LeavesOf(node.conditions)

LeavesOf(nodes) == IF nodes = <<>> THEN <<>> ELSE Leaves(Head(nodes)) \o LeavesOf(Tail(nodes))

\* The parameter names of the bindparam calls of a logged call.
RECURSIVE KeysOf(_)
KeysOf(binds) == IF binds = <<>> THEN <<>> ELSE <<Head(binds).key>> \o KeysOf(Tail(binds))

\* C1: with one schema or a list of schemas that the resolver accepts, a
\* condition whose name no schema has (under a table name that contains
\* the condition's qualifier, when it has one: the widest reading of a
\* schema exposing the name) makes filter raise the unresolved-field
\* BooleanParserException and return nothing.
C1_UnresolvedField ==
    \A k \in 1..Len(runs) :
        (/\ OneCondition
         /\ modelclass.shape \in {"single", "list"}
         /\ Accepted(modelclass)
         /\ \A i \in 1..Len(CheckModels(modelclass).value) :
               ~(/\ HasAttribute(CheckModels(modelclass).value[i], runs[k].before[1])
                 /\ StrContains(runs[k].before[1].base, CheckModels(modelclass).value[i].tablename)))
        => /\ runs[k].exc = "BooleanParserException"
           /\ runs[k].msg = UnresolvedField
           /\ runs[k].value = None

\* C2: a condition resolved to a numeric column whose value, or whose
\* value2 when it has one, does not convert to the column's type makes
\* filter raise the invalid-numeric-value BooleanParserException and return
\* nothing.
C2_InvalidNumericValue ==
    \A k \in 1..Len(runs) :
        (/\ OneCondition
         /\ runs[k].calls[1].found.field # None
         /\ runs[k].calls[1].found.field.type \in Numeric
         /\ \/ ~Convertible(runs[k].before[1].value, runs[k].calls[1].found.field.type)
            \/ /\ runs[k].before[1].hasvalue2
               /\ ~Convertible(runs[k].before[1].value2, runs[k].calls[1].found.field.type))
        => /\ runs[k].exc = "BooleanParserException"
           /\ runs[k].msg = InvalidNumericValue
           /\ runs[k].value = None

\* A range on a decimal column whose value converts and whose value2 does
\* not has been refused.
C2_Witness ==
    /\ OneCondition
    /\ Len(runs) = 1
    /\ runs[1].calls[1].found.field # None
    /\ runs[1].calls[1].found.field.type = "decimal"
    /\ runs[1].before[1].hasvalue2
    /\ Convertible(runs[1].before[1].value, "float")
    /\ ~Convertible(runs[1].before[1].value2, "float")
    /\ runs[1].exc = "BooleanParserException"
    /\ runs[1].msg = InvalidNumericValue

\* C4: a condition whose field resolves and whose values convert makes
\* filter return a predicate, never nothing.
C4_OnePredicate ==
    \A k \in 1..Len(runs) :
        (OneCondition /\ runs[k].exc = "") => runs[k].value # None

\* C6: when some schema of the list exposes the condition's field, filter
\* raises no unresolved-field error and passes on the first such schema and
\* its field.
C6_FirstSchema ==
    \A k \in 1..Len(runs) :
        (/\ OneCondition
         /\ Accepted(modelclass)
         /\ \E i \in 1..Len(CheckModels(modelclass).value) :
               Exposes(CheckModels(modelclass).value[i], runs[k].before[1]))
        => LET models == CheckModels(modelclass).value
               self == runs[k].before[1]
               first == CHOOSE i \in 1..Len(models) :
                           /\ Exposes(models[i], self)
                           /\ \A j \in 1..(i - 1) : ~Exposes(models[j], self)
           IN  /\ ~(runs[k].exc = "BooleanParserException" /\ runs[k].msg = UnresolvedField)
               /\ runs[k].calls[1].found.model = models[first]
               /\ runs[k].calls[1].found.field = GetAttr(models[first], self.name)

\* C9: filter leaves the condition as it was, so a second call binds under
\* the names of the first, and a range binds its two values under two
\* names on every call.
C9_ConditionUnchanged ==
    \A k \in 1..Len(runs) :
        OneCondition =>
            /\ runs[k].before = (IF k < Len(runs) THEN runs[k + 1].before ELSE conds)
            /\ runs[k].exc = "" =>
                  /\ KeysOf(runs[k].calls[1].binds) = KeysOf(runs[1].calls[1].binds)
                  /\ runs[k].before[1].hasvalue2 =>
                        /\ Len(runs[k].calls[1].binds) = 2
                        /\ runs[k].calls[1].binds[1].key # runs[k].calls[1].binds[2].key

\* C7: _check_models returns the one-element list of a single schema, the
\* entries of a list or tuple in their order, the classes of a module that
\* have a table name; and it fails, returning nothing, exactly when an entry
\* of that list is no model class.
C7_Entries(classes) ==
    IF classes.shape = "module"
    THEN SelectSeq(classes.items, LAMBDA m : m.kind \in {"model", "class"} /\ m.tablename # <<>>)
    ELSE classes.items

C7_CheckModels ==
    ret.op = "_check_models" =>
        IF \E i \in 1..Len(C7_Entries(ret.classes)) : C7_Entries(ret.classes)[i].kind # "model"
        THEN ret.out.exc = "AssertionError" /\ ret.out.value = None
        ELSE ret.out.exc = "" /\ ret.out.value = C7_Entries(ret.classes)

\* A module of a model class and of a class without a table name has been
\* resolved to the model class alone.
C7_Witness ==
    /\ ret.op = "_check_models"
    /\ ret.classes.shape = "module"
    /\ Len(ret.classes.items) = 2
    /\ ret.out.exc = ""
    /\ Len(ret.out.value) = 1

\* C8: _get_field returns the model's attribute exactly when the model has
\* it and the qualifier, if there is one, equals the model's table name.
C8_QualifierEquals ==
    ret.op = "_get_field" =>
        /\ (ret.out # None) <=>
              /\ ret.model.attrs[ret.field_name] # "absent"
              /\ ret.base_name = <<>> \/ ret.base_name = ret.model.tablename
        /\ ret.out # None => ret.out = GetAttr(ret.model, ret.field_name)

\* The conditions after the k-th call of the root's filter.
After(k) == IF k < Len(runs) THEN runs[k + 1].before ELSE conds

\* C3: the conditions of one expression that have the same fullname are
\* bound under names that differ from one another: the bindnames that
\* _bind_parameter_names gives, and the names that the translation binds,
\* those of the range values among them.
C3_DistinctNames ==
    /\ runs = <<>> =>
          \A i, j \in 1..Len(conds) :
              (i # j /\ conds[i].fullname = conds[j].fullname)
              => conds[i].bindname # conds[j].bindname
    /\ (Len(runs) >= 1 /\ runs[1].exc = "") =>
          \A a, b \in 1..Len(runs[1].calls) :
              \A i \in 1..Len(runs[1].calls[a].binds), j \in 1..Len(runs[1].calls[b].binds) :
                  (/\ <<a, i>> # <<b, j>>
                   /\ runs[1].before[runs[1].calls[a].cond].fullname
                        = runs[1].before[runs[1].calls[b].cond].fullname)
                  => runs[1].calls[a].binds[i].key # runs[1].calls[b].binds[j].key

\* C5: the filter of a BoolAnd or BoolOr whose children all translate
\* returns the conjunction, or the disjunction, of exactly the results of
\* its children's filters on the same schema argument, in the children's
\* order.  (Stated of the call made last, in every state: that is, of
\* every call.)
C5_ChildOrder ==
    \A k \in {Len(runs)} \ {0} :
        (Len(stack) = 1 /\ stack[1].kind \in {"and", "or"})
        => LET children == stack[1].conditions
               each == [i \in 1..Len(children) |->
                           NodeFilter(children[i], modelclass, Heap(runs[k].before, <<>>))]
           IN  (\A i \in 1..Len(children) : ~Raised(each[i]))
               => /\ runs[k].exc = ""
                  /\ runs[k].value.kind = stack[1].kind
                  /\ Len(runs[k].value.clauses) = Len(children)
                  /\ \A i \in 1..Len(children) : runs[k].value.clauses[i] = each[i].value
                  /\ \A c \in 1..Len(runs[k].calls) : runs[k].calls[c].classes = modelclass
                  /\ [c \in 1..Len(runs[k].calls) |-> runs[k].calls[c].cond] = Leaves(stack[1])

\* A BoolAnd of a BoolNot and a condition has been translated.
C5_Witness ==
    /\ Len(stack) = 1
    /\ stack[1].kind = "and"
    /\ Len(stack[1].conditions) = 2
    /\ stack[1].conditions[1].kind = "not"
    /\ stack[1].conditions[2].kind = "cond"
    /\ Len(runs) >= 1
    /\ runs[1].exc = ""
    /\ runs[1].value = and_(<<not_(None), None>>)

\* C10: when the filter of some condition of the expression raises, the
\* root's filter raises what the first such condition, from left to right,
\* raises, returns nothing, and translates no condition after that one.
\* (Stated of the call made last, in every state: that is, of every call.)
C10_FirstError ==
    \A k \in {Len(runs)} \ {0} :
        Len(stack) = 1
        => LET leaves == Leaves(stack[1])
               each == [p \in 1..Len(leaves) |-> Filter(runs[k].before[leaves[p]], modelclass)]
               failing == {p \in 1..Len(leaves) : Raised(each[p])}
               first == CHOOSE p \in failing : \A q \in failing : p <= q
               after == After(k)
           IN  failing # {}
               => /\ runs[k].exc = each[first].exc
                  /\ runs[k].msg = each[first].msg
                  /\ runs[k].value = None
                  /\ Len(runs[k].calls) = first
                  /\ \A c \in 1..first : runs[k].calls[c].cond = leaves[c]
                  /\ \A q \in (first + 1)..Len(leaves) :
                        after[leaves[q]] = runs[k].before[leaves[q]]

\* An expression of three conditions whose second has an unresolved field
\* or an invalid value has been refused, the third condition untouched.
C10_Witness ==
    /\ Len(stack) = 1
    /\ Len(Leaves(stack[1])) = 3
    /\ Len(runs) >= 1
    /\ runs[1].exc = "BooleanParserException"
    /\ Len(runs[1].calls) = 2
    /\ runs[1].calls[1].exc = ""
    /\ runs[1].calls[2].exc = "BooleanParserException"

====
